---- MODULE Spec2Model ----
(***************************************************************************)
(* The SSD1306 driver core: the 1024-byte framebuffer of GraphicsMode, its *)
(* dirty region, flush / fast_flush, and the addressing mode kept by       *)
(* DisplayProperties, together with the controller on the other side of    *)
(* the command/data channel.                                               *)
(*                                                                         *)
(* The framebuffer [u8; 1024] is held as the set of its 1-bits: the pair   *)
(* <<i, b>> is in buffer iff bit b of byte i is set. The controller's      *)
(* display RAM is held the same way, as triples <<page, column, bit>>.     *)
(* Coordinates are u32 in the source; here they are drawn from Points.     *)
(***************************************************************************)
EXTENDS Integers, Sequences, FiniteSets, TLC

\* ------------------------------------------------------------------ bounds

\* API calls per behaviour of Spec (every operation) and of SpecGraphics (the
\* operations of GraphicsMode).
MaxOps == 2
MaxGraphicsOps == 3
\* set_pixel calls per behaviour.
MaxPixels == 2
\* Transport failures per behaviour.
MaxFail == 1
\* API calls per behaviour of SpecDriver (every operation of the driver, on
\* few inputs) and of SpecFlush (GraphicsMode over a channel that accepts
\* everything).
MaxDriverOps == 2
MaxFlushOps == 4
\* Calls of a client that turns the display and reads its properties.
MaxRotationOps == 3
\* Calls of a client whose channel fails in the middle of a sequence.
MaxAbortOps == 3
\* Calls of a client that draws two opposite corners and updates the display.
MaxCornerOps == 4
\* Calls of a client that initialises the display and then uses it.
MaxSessionOps == 3
\* Calls of a client that updates the display again after a failed update.
MaxRetryOps == 5

\* The points set_pixel is called with. <<0, 0>>, <<0, 1>> and <<9, 9>> lie
\* on every panel at every rotation, the first two in one byte of an
\* unrotated frame, the third in page 1. <<0, 40>> is below a 32- or
\* 16-row panel but inside the 1024-byte array; <<40, 0>> is the same after a
\* quarter turn. <<100, 9>> is right of a 96-column panel; <<9, 100>> is below
\* every unrotated panel and on a quarter-turned 128-column one. With 2^28
\* the product (c / 8) * 128 reaches 2^32, the width of a 32-bit usize.
Points == {<<0, 0>>, <<0, 1>>, <<9, 9>>, <<0, 40>>, <<40, 0>>, <<100, 9>>,
           <<9, 100>>, <<0, 2^28>>, <<2^28, 0>>}

\* The points of SpecDriver and SpecFlush.
FewPoints == {<<0, 1>>, <<9, 9>>, <<0, 40>>, <<9, 100>>}

\* The windows set_draw_area is called with, as <<start, end>>: the whole
\* 128x64 frame, an inner rectangle, an empty window with end = 0, one past
\* column 127 and one in page 8.
DrawAreas == {<<<<0, 0>>, <<128, 64>>>>, <<<<8, 8>>, <<16, 16>>>>,
              <<<<0, 0>>, <<0, 0>>>>, <<<<0, 0>>, <<129, 8>>>>,
              <<<<0, 64>>, <<8, 72>>>>}

\* The arguments of set_column and set_row (row 64 is in page 8).
\* Two points of different pages that lie on every panel.
TwoPoints == {<<0, 1>>, <<9, 9>>}

\* Two opposite corners of the 128x64 panel.
Corners == {<<0, 0>>, <<127, 63>>}

Columns == {0, 127}
Rows == {0, 63, 64}

\* The slices draw is called with, as <<first byte, length>>.
Slices == {<<0, 1>>, <<0, 1024>>}

\* The arguments of bounded_draw, as <<disp_width, upper_left, lower_right>>:
\* one band of eight bytes, and corners the wrong way round.
BoundedDraws == {<<128, <<0, 0>>, <<8, 7>>>>, <<128, <<8, 8>>, <<0, 0>>>>}

\* The brightness values change_brightness is called with: precharge at and
\* beyond both ends of 1..15.
Brightnesses == {[precharge |-> p, contrast |-> 95] : p \in {0, 1, 15, 16}}

\* ------------------------------------------------------- program constants

BufferLen == 1024

Sizes == {"Display128x64", "Display128x32", "Display96x16"}
Rotations == {"Rotate0", "Rotate90", "Rotate180", "Rotate270"}
AddrModes == {"Page", "Horizontal", "Vertical"}

\* DisplaySize::dimensions(): (width, height) of the unrotated panel.
Dimensions(size) ==
    CASE size = "Display128x64" -> <<128, 64>>
      [] size = "Display128x32" -> <<128, 32>>
      [] size = "Display96x16" -> <<96, 16>>

\* The active slice flush() transmits for each size.
ActiveLen(size) ==
    CASE size = "Display128x64" -> BufferLen
      [] size = "Display128x32" -> 512
      [] size = "Display96x16" -> 192

Quarter(rot) == rot \in {"Rotate90", "Rotate270"}

\* The builds: overflow checks and debug assertions on (debug) or off
\* (release), usize of 32 or 64 bits.
Builds == {"debug32", "release32", "debug64", "release64"}
Checks(b) == b \in {"debug32", "debug64"}
Bits(b) == IF b \in {"debug32", "release32"} THEN 32 ELSE 64

Min(a, b) == IF a < b THEN a ELSE b
Max(a, b) == IF a > b THEN a ELSE b

\* ------------------------------------------------------------------- state

VARIABLES
    \* the build the program was compiled as, once a call's outcome has
    \* depended on it ("unknown" until then)
    build,
    \* DisplayProperties
    display_size, display_rotation, addr_mode,
    \* GraphicsMode
    buffer, min_x, max_x, min_y, max_y,
    \* the controller: addressing mode, draw window and write pointer, RAM
    dev, dev_mem,
    \* a panic aborted the program
    panicked,
    \* the last call: its name, arguments and result, and the transmissions
    \* the channel accepted during it, and the one it rejected, if any
    last, sent, rejected,
    \* history: dev_mem equalled the framebuffer and only set_pixel / clear
    \* were called since
    synced,
    \* history: the points set_pixel accepted since construction or the last
    \* flush / fast_flush call; the same since the dirty region was last
    \* reset; whether clear() was called since that reset
    touched, tracked, cleared,
    \* budgets used
    nops, npix, nfail

vars == <<build, display_size, display_rotation, addr_mode,
          buffer, min_x, max_x, min_y, max_y, dev, dev_mem, panicked, last, sent,
          rejected, synced, touched, tracked, cleared, nops, npix, nfail>>

\* GetDimensions with the rotation ignored.
GetDimensionsUnrotated(size, rot) == Dimensions(size)

\* DisplayProperties::get_dimensions(): the dimensions after rotation.
GetDimensions(size, rot) ==
    IF Quarter(rot)
    THEN <<Dimensions(size)[2], Dimensions(size)[1]>>
    ELSE Dimensions(size)

\* The framebuffer's active slice against the controller's RAM: byte i of the
\* slice is shown at page i / width, column i % width.
ActiveBits(buf, size) ==
    {<<p[1] \div Dimensions(size)[1], p[1] % Dimensions(size)[1], p[2]>> :
        p \in {q \in buf : q[1] < ActiveLen(size)}}

PanelBits(mem, size) ==
    {d \in mem : d[2] < Dimensions(size)[1] /\ d[1] < Dimensions(size)[2] \div 8}

InSync == ActiveBits(buffer, display_size) = PanelBits(dev_mem, display_size)

\* The builds a call may turn out to run as: the known one, or, while the
\* build is unknown, every build when the call's outcome depends on it and an
\* arbitrary one when it does not. The build becomes known with the former.
BuildChoices(sensitive) ==
    IF build # "unknown" THEN {build}
    ELSE IF sensitive THEN Builds
    ELSE {"release32"}

Learn(sensitive, b) == IF build = "unknown" /\ ~sensitive THEN "unknown" ELSE b

Call(op, x, y, v, mode, rot, res) ==
    [op |-> op, x |-> x, y |-> y, v |-> v, mode |-> mode, rot |-> rot, res |-> res]

\* --------------------------------------------------------------- set_pixel

\* q * w + a in usize: the wrapped value and whether the multiplication or
\* the addition overflowed. w is 96 or 128, q < 2^29 and a < 2^30. A result
\* of 2^30 or more is returned as 2^30: the caller only compares it with the
\* buffer length.
UsizeMulAdd(bits, q, w, a) ==
    IF bits = 32
    THEN LET r == (q * (w \div 32)) % (2^27)
             gap == 2^27 - r
             addOvf == gap <= 2^25 /\ a >= 32 * gap
         IN  [ovf |-> (q * (w \div 32) >= 2^27) \/ addOvf,
              val |-> IF addOvf THEN a - 32 * gap
                      ELSE IF r < 2^25 THEN Min(32 * r + a, 2^30)
                      ELSE 2^30]
    ELSE [ovf |-> FALSE,
          val |-> IF q < 2^20 THEN Min(q * w + a, 2^30) ELSE 2^30]

\* The index match of set_pixel: an early return when the coordinate along
\* the panel's columns is not below the width, else the byte index.
PixelIdx(size, rot, bits, x, y) ==
    LET w == Dimensions(size)[1]
    IN  IF ~Quarter(rot)
        THEN IF x >= w
             THEN [ret |-> TRUE, ovf |-> FALSE, val |-> 0]
             ELSE [ret |-> FALSE] @@ UsizeMulAdd(bits, y \div 8, w, x)
        ELSE IF y >= w
             THEN [ret |-> TRUE, ovf |-> FALSE, val |-> 0]
             ELSE [ret |-> FALSE] @@ UsizeMulAdd(bits, x \div 8, w, y)

\* PixelBit with the rotation ignored.
PixelBitUnrotated(rot, x, y) == y % 8

\* The bit of the byte: 1 << (y % 8), or 1 << (x % 8) after a quarter turn.
PixelBit(rot, x, y) == IF Quarter(rot) THEN x % 8 ELSE y % 8

\* What set_pixel does with a point: a panic on an arithmetic overflow with
\* overflow checks on, else a write when there was no early return and the
\* index is inside the array.
PixelOutcome(size, rot, b, x, y) ==
    LET r == PixelIdx(size, rot, Bits(b), x, y)
    IN  [panics |-> ~r.ret /\ r.ovf /\ Checks(b),
         accepted |-> ~r.ret /\ r.val < BufferLen,
         idx |-> r.val]

\* WidenMin with the comparison turned around.
WidenMinFlipped(cur, c) == IF c % 256 > cur THEN c % 256 ELSE cur

\* `if (c as u8) < self.min { self.min = c as u8 }`
WidenMin(cur, c) == IF c % 256 < cur THEN c % 256 ELSE cur

\* `if (c as u8) > self.max { self.max = c as u8 }`
WidenMax(cur, c) == IF c % 256 > cur THEN c % 256 ELSE cur

\* WriteBit with `*byte = !bit` for value 0: the other seven bits are set.
WriteBitAssign(buf, idx, bit, value) ==
    IF value = 0
    THEN {p \in buf : p[1] # idx} \cup {<<idx, k>> : k \in (0..7) \ {bit}}
    ELSE buf \cup {<<idx, bit>>}

\* `*byte &= !bit` for value 0, `*byte |= bit` otherwise.
WriteBit(buf, idx, bit, value) ==
    IF value = 0 THEN buf \ {<<idx, bit>>} ELSE buf \cup {<<idx, bit>>}

set_pixel(x, y, value) ==
    LET out(b) == PixelOutcome(display_size, display_rotation, b, x, y)
        sensitive == Cardinality({out(b) : b \in Builds}) > 1
    IN  \E b \in BuildChoices(sensitive) : \E o \in {out(b)} :
        /\ ~panicked
        /\ build' = Learn(sensitive, b)
        /\ nfail' = nfail
        /\ sent' = <<>>
        /\ rejected' = <<>>
        /\ UNCHANGED <<display_size, display_rotation, addr_mode, dev, dev_mem>>
        /\ IF o.panics
           THEN /\ panicked' = TRUE
                /\ last' = Call("set_pixel", x, y, value, "-", "-", "Panic")
                /\ UNCHANGED <<buffer, min_x, max_x, min_y, max_y,
                               touched, tracked, cleared>>
           ELSE IF ~o.accepted
           THEN /\ last' = Call("set_pixel", x, y, value, "-", "-", "Return")
                /\ UNCHANGED <<buffer, min_x, max_x, min_y, max_y, panicked,
                               touched, tracked, cleared>>
           ELSE /\ min_x' = WidenMin(min_x, x)
                /\ max_x' = WidenMax(max_x, x)
                /\ min_y' = WidenMin(min_y, y)
                /\ max_y' = WidenMax(max_y, y)
                /\ buffer' = WriteBit(buffer, o.idx, PixelBit(display_rotation, x, y), value)
                /\ last' = Call("set_pixel", x, y, value, "-", "-", "Ok")
                /\ touched' = touched \cup {<<x, y>>}
                /\ tracked' = tracked \cup {<<x, y>>}
                /\ UNCHANGED <<panicked, cleared>>
        /\ synced' = (synced \/ InSync')

\* ------------------------------------------------------------------- clear

\* The buffer left alone by clear().
ClearBufferKept(buf) == buf

\* `self.buffer = [0; 1024]`
ClearBuffer(buf) == {}

\* ClearRegion with the dimensions of the unrotated panel.
ClearRegionUnrotated(size, rot) ==
    [min_x |-> 0, max_x |-> Dimensions(size)[1] - 1,
     min_y |-> 0, max_y |-> Dimensions(size)[2] - 1]

\* The dirty region clear() leaves: the whole frame at the current rotation.
ClearRegion(size, rot) ==
    [min_x |-> 0, max_x |-> GetDimensions(size, rot)[1] - 1,
     min_y |-> 0, max_y |-> GetDimensions(size, rot)[2] - 1]

clear ==
    /\ ~panicked
    /\ nfail' = nfail
    /\ buffer' = ClearBuffer(buffer)
    /\ min_x' = ClearRegion(display_size, display_rotation).min_x
    /\ max_x' = ClearRegion(display_size, display_rotation).max_x
    /\ min_y' = ClearRegion(display_size, display_rotation).min_y
    /\ max_y' = ClearRegion(display_size, display_rotation).max_y
    /\ last' = Call("clear", 0, 0, 0, "-", "-", "Ok")
    /\ sent' = <<>>
    /\ rejected' = <<>>
    /\ cleared' = TRUE
    /\ UNCHANGED <<build, display_size, display_rotation, addr_mode, dev, dev_mem,
                   panicked, touched, tracked>>
    /\ synced' = (synced \/ InSync')

\* ----------------------------------------------------------- the channel

\* A transmission: a command with its (numeric) parameters or a data slice
\* buffer[a .. a + b). Panic marks the point where the call panics.
Cmd(c, a, b) == [c |-> c, a |-> a, b |-> b]
Panic == Cmd("Panic", 0, 0)

\* AddrMode as the parameter of the AddressMode command.
ModeCode(mode) ==
    CASE mode = "Horizontal" -> 0
      [] mode = "Vertical" -> 1
      [] mode = "Page" -> 2

CodeMode(code) ==
    CASE code = 0 -> "Horizontal"
      [] code = 1 -> "Vertical"
      [] code = 2 -> "Page"

\* The first step of a script that panics (Len + 1 when none does).
FirstPanic(script) ==
    IF \E i \in 1..Len(script) : script[i].c = "Panic"
    THEN CHOOSE i \in 1..Len(script) :
            /\ script[i].c = "Panic"
            /\ \A j \in 1..(i - 1) : script[j].c # "Panic"
    ELSE Len(script) + 1

\* The transmissions the channel may reject: any one a call gets to (0: none).
FailPoints(script) ==
    {0} \cup (IF nfail < MaxFail THEN 1..(FirstPanic(script) - 1) ELSE {})

\* The steps completed when the channel rejects step f (f = 0: none): the `?`
\* after every send returns at the first error, a panic unwinds.
\* Completed with the rejected transmission sent again, and accepted, before
\* the call returns.
CompletedResent(script, f) == IF f > 0 THEN f ELSE FirstPanic(script) - 1

Completed(script, f) == IF f > 0 THEN f - 1 ELSE FirstPanic(script) - 1

Result(script, f) ==
    IF f > 0 THEN "Err"
    ELSE IF FirstPanic(script) <= Len(script) THEN "Panic"
    ELSE "Ok"

\* ------------------------------------------------------------ the controller

\* The write pointer's linear position in its window, and the window's size,
\* in the order the addressing mode walks it. Column and page pointers wrap
\* modulo 128 and 8 and return to the window start after the window end.
WinCols(d) == ((d.ce - d.cs) % 128) + 1
WinPages(d) == ((d.pe - d.ps) % 8) + 1

WinSize(d) ==
    CASE d.mode = "Horizontal" -> WinCols(d) * WinPages(d)
      [] d.mode = "Vertical" -> WinCols(d) * WinPages(d)
      [] d.mode = "Page" -> 128

WinPos(d) ==
    CASE d.mode = "Horizontal" ->
            ((d.page - d.ps) % 8) * WinCols(d) + ((d.col - d.cs) % 128)
      [] d.mode = "Vertical" ->
            ((d.col - d.cs) % 128) * WinPages(d) + ((d.page - d.ps) % 8)
      [] d.mode = "Page" -> d.col

\* The RAM cell <<page, column>> at linear position k of the window.
WinCell(d, k) ==
    CASE d.mode = "Horizontal" ->
            <<(d.ps + (k \div WinCols(d))) % 8, (d.cs + (k % WinCols(d))) % 128>>
      [] d.mode = "Vertical" ->
            <<(d.ps + (k % WinPages(d))) % 8, (d.cs + (k \div WinPages(d))) % 128>>
      [] d.mode = "Page" -> <<d.page, k % 128>>

\* The linear position of a RAM cell, or -1 when the pointer never visits it.
CellPos(d, page, col) ==
    CASE d.mode = "Horizontal" ->
            IF (col - d.cs) % 128 < WinCols(d) /\ (page - d.ps) % 8 < WinPages(d)
            THEN ((page - d.ps) % 8) * WinCols(d) + ((col - d.cs) % 128) ELSE -1
      [] d.mode = "Vertical" ->
            IF (col - d.cs) % 128 < WinCols(d) /\ (page - d.ps) % 8 < WinPages(d)
            THEN ((col - d.cs) % 128) * WinPages(d) + ((page - d.ps) % 8) ELSE -1
      [] d.mode = "Page" -> IF page = d.page THEN col ELSE -1

\* Whether byte j of a data transmission of n bytes is the last one written
\* to its cell (a transmission longer than the window wraps around).
LastWrite(d, j, n) == j + WinSize(d) >= n

\* RAM after n data bytes, the bytes data[from .. from + n) of buf, are
\* written from the pointer on.
DevWrite(d, mem, buf, from, n) ==
    LET k0 == WinPos(d)
        size == WinSize(d)
        hit(cell) ==
            LET q == CellPos(d, cell[1], cell[2])
            IN  q >= 0 /\ ((q - k0) % size) < n
        kept == {c \in mem : ~hit(c)}
        written == {p \in buf : p[1] >= from /\ p[1] < from + n
                                /\ LastWrite(d, p[1] - from, n)}
    IN  kept \cup {<<WinCell(d, (k0 + p[1] - from) % size)[1],
                     WinCell(d, (k0 + p[1] - from) % size)[2], p[2]>> : p \in written}

\* The pointer after n data bytes.
DevAdvance(d, n) ==
    LET cell == WinCell(d, (WinPos(d) + n) % WinSize(d))
    IN  [d EXCEPT !.page = cell[1], !.col = cell[2]]

\* The controller's registers after one accepted transmission.
DevCommand(d, t) ==
    CASE t.c = "AddressMode" -> [d EXCEPT !.mode = CodeMode(t.a)]
      [] t.c = "ColumnAddress" -> [d EXCEPT !.cs = t.a, !.ce = t.b, !.col = t.a]
      [] t.c = "PageAddress" -> [d EXCEPT !.ps = t.a, !.pe = t.b, !.page = t.a]
      [] t.c = "ColStart" -> [d EXCEPT !.col = t.a]
      [] t.c = "PageStart" -> [d EXCEPT !.page = t.a]
      [] t.c = "SegmentRemap" -> [d EXCEPT !.remap = t.a]
      [] t.c = "ReverseComDir" -> [d EXCEPT !.comdir = t.a]
      [] t.c = "Data" -> DevAdvance(d, t.b)
      [] OTHER -> d

RECURSIVE DevRun(_, _, _, _)
\* Registers and RAM after the transmissions ts, in order.
DevRun(d, mem, buf, ts) ==
    IF ts = <<>> THEN [d |-> d, mem |-> mem]
    ELSE LET t == Head(ts)
         IN  DevRun(DevCommand(d, t),
                    IF t.c = "Data" THEN DevWrite(d, mem, buf, t.a, t.b) ELSE mem,
                    buf, Tail(ts))

\* ------------------------------------------------------ DisplayProperties

\* Page::from(row): the page holding a pixel row; rows of page 8 and above
\* panic ("Page too high").
PageFrom(row) == [panics |-> row \div 8 > 7, page |-> row \div 8]

\* a - b in u8: a panic with overflow checks on, else the wrapped value.
SubU8(checks, a, b) ==
    [panics |-> a < b /\ checks, val |-> (a - b) % 256]

\* a + b in u8.
AddU8(checks, a, b) ==
    [panics |-> a + b > 255 /\ checks, val |-> (a + b) % 256]

\* SetDrawArea with end taken as the last column and row of the window.
SetDrawAreaInclusive(mode, checks, start, end) ==
    IF mode = "Page" THEN <<Panic>>
    ELSE IF PageFrom(start[2]).panics \/ PageFrom(end[2]).panics
    THEN <<Cmd("ColumnAddress", start[1], end[1]), Panic>>
    ELSE <<Cmd("ColumnAddress", start[1], end[1]),
           Cmd("PageAddress", PageFrom(start[2]).page, PageFrom(end[2]).page)>>

\* set_draw_area(start, end): the column window, then the page window; a
\* panic in Page mode.
SetDrawArea(mode, checks, start, end) ==
    IF mode = "Page" THEN <<Panic>>
    ELSE LET e0 == SubU8(checks, end[1], 1)
             p1 == PageFrom(start[2])
             e1 == SubU8(checks, end[2], 1)
             p2 == PageFrom(e1.val)
         IN  IF e0.panics THEN <<Panic>>
             ELSE IF p1.panics \/ e1.panics \/ p2.panics
             THEN <<Cmd("ColumnAddress", start[1], e0.val), Panic>>
             ELSE <<Cmd("ColumnAddress", start[1], e0.val),
                    Cmd("PageAddress", p1.page, p2.page)>>

\* buffer.chunks(disp_width): how many there are, and the length of chunk i.
NumChunks(len, disp_width) == (len + disp_width - 1) \div disp_width
ChunkLen(len, disp_width, i) == Min(disp_width, len - i * disp_width)

\* BoundedDraw with only the first and the last page of the box sent.
BoundedDrawEnds(checks, disp_width, upper_left, lower_right) ==
    LET diff == SubU8(checks, lower_right[2], upper_left[2])
        first == upper_left[2] \div 8
        final == first + diff.val \div 8
        slice(i) == Cmd("Data", i * disp_width + upper_left[1],
                        lower_right[1] - upper_left[1])
    IN  IF diff.panics THEN <<Panic>>
        ELSE IF first = final THEN <<slice(first)>>
        ELSE <<slice(first), slice(final)>>

\* bounded_draw(buffer, disp_width, upper_left, lower_right): one data
\* transmission per chunk taken, the slice [page_lower, page_upper) of it; a
\* slice outside its chunk panics.
BoundedDraw(checks, disp_width, upper_left, lower_right) ==
    LET diff == SubU8(checks, lower_right[2], upper_left[2])
        num_pages == (diff.val \div 8) + 1
        starting_page == upper_left[2] \div 8
        page_lower == upper_left[1]
        page_upper == lower_right[1]
        stop == Min(starting_page + num_pages, NumChunks(BufferLen, disp_width))
        count == Max(stop - starting_page, 0)
        slice(i) ==
            IF page_lower > page_upper \/ page_upper > ChunkLen(BufferLen, disp_width, i)
            THEN Panic
            ELSE Cmd("Data", i * disp_width + page_lower, page_upper - page_lower)
    IN  IF diff.panics THEN <<Panic>>
        ELSE [j \in 1..count |-> slice(starting_page + j - 1)]

\* RotationCommands with the quarter turns exchanged.
RotationCommandsSwapped(rot) ==
    CASE rot = "Rotate0" -> <<Cmd("SegmentRemap", 1, 0), Cmd("ReverseComDir", 1, 0)>>
      [] rot = "Rotate90" -> <<Cmd("SegmentRemap", 1, 0), Cmd("ReverseComDir", 0, 0)>>
      [] rot = "Rotate180" -> <<Cmd("SegmentRemap", 0, 0), Cmd("ReverseComDir", 0, 0)>>
      [] rot = "Rotate270" -> <<Cmd("SegmentRemap", 0, 0), Cmd("ReverseComDir", 1, 0)>>

\* set_rotation(rot): SegmentRemap, then ReverseComDir.
RotationCommands(rot) ==
    CASE rot = "Rotate0" -> <<Cmd("SegmentRemap", 1, 0), Cmd("ReverseComDir", 1, 0)>>
      [] rot = "Rotate90" -> <<Cmd("SegmentRemap", 0, 0), Cmd("ReverseComDir", 1, 0)>>
      [] rot = "Rotate180" -> <<Cmd("SegmentRemap", 0, 0), Cmd("ReverseComDir", 0, 0)>>
      [] rot = "Rotate270" -> <<Cmd("SegmentRemap", 1, 0), Cmd("ReverseComDir", 0, 0)>>

\* Brightness::default().
BrightnessDefault == [precharge |-> 2, contrast |-> 95]

\* change_brightness(brightness): the debug assertion, then two commands.
BrightnessCommands(checks, brightness) ==
    IF checks /\ ~(0 < brightness.precharge /\ brightness.precharge <= 15)
    THEN <<Panic>>
    ELSE <<Cmd("PreChargePeriod", 1, brightness.precharge),
           Cmd("Contrast", brightness.contrast, 0)>>

ComPinConfig(size) ==
    CASE size = "Display128x32" -> Cmd("ComPinConfig", 0, 0)
      [] size = "Display128x64" -> Cmd("ComPinConfig", 1, 0)
      [] size = "Display96x16" -> Cmd("ComPinConfig", 0, 0)

\* InitTail with the display switched on before the last four commands.
InitTailOnEarly ==
    <<Cmd("DisplayOn", 1, 0),
      Cmd("VcomhDeselect", 0, 0),
      Cmd("AllOn", 0, 0),
      Cmd("Invert", 0, 0),
      Cmd("EnableScroll", 0, 0)>>

\* The commands init_with_mode sends after the brightness.
InitTail ==
    <<Cmd("VcomhDeselect", 0, 0),
      Cmd("AllOn", 0, 0),
      Cmd("Invert", 0, 0),
      Cmd("EnableScroll", 0, 0),
      Cmd("DisplayOn", 1, 0)>>

\* init_with_mode(mode): the initialisation sequence.
InitCommands(size, rot, checks, mode) ==
    <<Cmd("DisplayOn", 0, 0),
      Cmd("DisplayClockDiv", 8, 0),
      Cmd("Multiplex", Dimensions(size)[2] - 1, 0),
      Cmd("DisplayOffset", 0, 0),
      Cmd("StartLine", 0, 0),
      Cmd("ChargePump", 1, 0),
      Cmd("AddressMode", ModeCode(mode), 0)>>
    \o RotationCommands(rot)
    \o <<ComPinConfig(size)>>
    \o BrightnessCommands(checks, BrightnessDefault)
    \o InitTail

\* What a call that uses the channel does with its script: script(b) is the
\* script of build b, f the step the channel rejects, call the name and the
\* arguments of the call; rest(s, done) is what the call does besides, given
\* its script and the number of steps it completed.
Transmit(script(_), call, rest(_, _)) ==
    LET sensitive == Cardinality({script(b) : b \in Builds}) > 1
    IN  \E b \in BuildChoices(sensitive) : \E s \in {script(b)} :
        \E f \in FailPoints(s) : \E after \in {DevRun(dev, dev_mem, buffer,
                                                   SubSeq(s, 1, Completed(s, f)))} :
            /\ ~panicked
            /\ build' = Learn(sensitive, b)
            /\ sent' = SubSeq(s, 1, Completed(s, f))
            /\ rejected' = IF f > 0 THEN <<s[f]>> ELSE <<>>
            /\ dev' = after.d
            /\ dev_mem' = after.mem
            /\ panicked' = (Result(s, f) = "Panic")
            /\ last' = [call EXCEPT !.res = Result(s, f)]
            /\ nfail' = IF f > 0 THEN nfail + 1 ELSE nfail
            /\ rest(s, Completed(s, f))
            /\ synced' = InSync'

\* ChangeModeResult with the local mode set before the command is sent.
ChangeModeEager(old, mode, accepted) == mode

\* The mode the local state holds after change_mode: the new one once the
\* command has been accepted.
ChangeModeResult(old, mode, accepted) == IF accepted THEN mode ELSE old

change_mode(mode) ==
    LET script(b) == <<Cmd("AddressMode", ModeCode(mode), 0)>>
        rest(s, done) ==
            /\ addr_mode' = ChangeModeResult(addr_mode, mode, done = 1)
            /\ UNCHANGED <<display_size, display_rotation, buffer,
                           min_x, max_x, min_y, max_y, touched, tracked, cleared>>
    IN  Transmit(script, Call("change_mode", 0, 0, 0, mode, "-", "-"), rest)

\* InitModeResult with the local mode never assigned.
InitModeKept(old, mode, accepted) == old

\* The mode the local state holds after init_with_mode: the new one once the
\* whole sequence has been accepted.
InitModeResult(old, mode, accepted) == IF accepted THEN mode ELSE old

init_with_mode(mode) ==
    LET script(b) == InitCommands(display_size, display_rotation, Checks(b), mode)
        rest(s, done) ==
            /\ addr_mode' = InitModeResult(addr_mode, mode, done = Len(s))
            /\ UNCHANGED <<display_size, display_rotation, buffer,
                           min_x, max_x, min_y, max_y, touched, tracked, cleared>>
    IN  Transmit(script, Call("init_with_mode", 0, 0, 0, mode, "-", "-"), rest)

\* RotationResult with the rotation stored once both commands were accepted.
RotationResultOnSuccess(old, rot, accepted) == IF accepted THEN rot ELSE old

\* The rotation the local state holds after set_rotation: the new one,
\* assigned before the first command is sent.
RotationResult(old, rot, accepted) == rot

set_rotation(rot) ==
    LET script(b) == RotationCommands(rot)
        rest(s, done) ==
            /\ display_rotation' = RotationResult(display_rotation, rot, done = Len(s))
            /\ UNCHANGED <<display_size, addr_mode, buffer,
                           min_x, max_x, min_y, max_y, touched, tracked, cleared>>
    IN  Transmit(script, Call("set_rotation", 0, 0, 0, "-", rot, "-"), rest)

\* A getter: it reads the properties and changes nothing.
Getter(call) ==
    /\ ~panicked
    /\ last' = call
    /\ sent' = <<>>
    /\ rejected' = <<>>
    /\ UNCHANGED <<build, display_size, display_rotation, addr_mode,
                   buffer, min_x, max_x, min_y, max_y, dev, dev_mem, panicked,
                   synced, touched, tracked, cleared, nfail>>

\* get_dimensions() / dimensions()
get_dimensions ==
    LET d == GetDimensions(display_size, display_rotation)
    IN  Getter(Call("get_dimensions", d[1], d[2], 0, "-", "-", "Ok"))

\* get_rotation() / rotation()
get_rotation ==
    Getter(Call("get_rotation", 0, 0, 0, "-", display_rotation, "Ok"))

\* Untouched with an implicit switch to Horizontal addressing.
UntouchedButMode(s, done) ==
    /\ addr_mode' = "Horizontal"
    /\ UNCHANGED <<display_size, display_rotation, buffer,
                   min_x, max_x, min_y, max_y, touched, tracked, cleared>>

\* What a call on DisplayProperties that only transmits leaves alone.
Untouched(s, done) ==
    UNCHANGED <<display_size, display_rotation, addr_mode, buffer,
                min_x, max_x, min_y, max_y, touched, tracked, cleared>>

set_draw_area(start, end) ==
    LET script(b) == SetDrawArea(addr_mode, Checks(b), start, end)
    IN  Transmit(script, Call("set_draw_area", start, end, 0, "-", "-", "-"),
                 Untouched)

\* set_column(column): ColStart in Page mode, a panic otherwise.
SetColumn(mode, column) ==
    IF mode = "Page" THEN <<Cmd("ColStart", column, 0)>> ELSE <<Panic>>

set_column(column) ==
    LET script(b) == SetColumn(addr_mode, column)
    IN  Transmit(script, Call("set_column", column, 0, 0, "-", "-", "-"), Untouched)

\* set_row(row): PageStart(row.into()) in Page mode, a panic otherwise.
SetRow(mode, row) ==
    IF mode # "Page" \/ PageFrom(row).panics THEN <<Panic>>
    ELSE <<Cmd("PageStart", PageFrom(row).page, 0)>>

set_row(row) ==
    LET script(b) == SetRow(addr_mode, row)
    IN  Transmit(script, Call("set_row", 0, row, 0, "-", "-", "-"), Untouched)

\* draw(&buffer[from .. from + len]): one data transmission.
draw(from, len) ==
    LET script(b) == <<Cmd("Data", from, len)>>
    IN  Transmit(script, Call("draw", from, len, 0, "-", "-", "-"), Untouched)

bounded_draw(disp_width, upper_left, lower_right) ==
    LET script(b) == BoundedDraw(Checks(b), disp_width, upper_left, lower_right)
    IN  Transmit(script,
                 Call("bounded_draw", upper_left, lower_right, disp_width, "-", "-", "-"),
                 Untouched)

display_on(on) ==
    LET script(b) == <<Cmd("DisplayOn", on, 0)>>
    IN  Transmit(script, Call("display_on", 0, 0, on, "-", "-", "-"), Untouched)

change_brightness(brightness) ==
    LET script(b) == BrightnessCommands(Checks(b), brightness)
    IN  Transmit(script,
                 Call("change_brightness", brightness.precharge, brightness.contrast,
                      0, "-", "-", "-"),
                 Untouched)

\* ------------------------------------------------------- flush, fast_flush

\* flush(): the window of the whole panel, then the active slice.
FlushWindow(mode, checks, size) ==
    SetDrawArea(mode, checks, <<0, 0>>, Dimensions(size))

\* FlushScript with the whole array sent instead of the size's slice.
FlushScriptWholeBuffer(mode, checks, size) ==
    FlushWindow(mode, checks, size) \o <<Cmd("Data", 0, BufferLen)>>

\* flush(): the window, then the slice of the display size.
FlushScript(mode, checks, size) ==
    FlushWindow(mode, checks, size) \o <<Cmd("Data", 0, ActiveLen(size))>>

\* RegionEmpty without the early return of fast_flush.
RegionEmptyNever(mnx, mxx, mny, mxy) == FALSE

\* fast_flush(): whether it goes to flush().
RegionEmpty(mnx, mxx, mny, mxy) == mxx < mnx \/ mxy < mny

\* Or7 with the rounding to the last row of the page left out.
Or7Dropped(y) == y

\* self.max_y | 7
Or7(y) == (y \div 8) * 8 + 7

\* The lower right corner fast_flush computes.
DispMaxX(checks, size, mxx) ==
    LET next == AddU8(checks, mxx, 1)
    IN  [panics |-> next.panics,
         val |-> IF next.val > Dimensions(size)[1] THEN Dimensions(size)[1] ELSE next.val]

DispMaxY(size, mxy) ==
    IF Or7(mxy) > Dimensions(size)[2] THEN Dimensions(size)[2] ELSE Or7(mxy)

FastFlushWindow(mode, checks, size, mnx, mxx, mny, mxy) ==
    IF DispMaxX(checks, size, mxx).panics THEN <<Panic>>
    ELSE SetDrawArea(mode, checks, <<mnx, mny>>,
                     <<DispMaxX(checks, size, mxx).val, DispMaxY(size, mxy)>>)

FastFlushScript(mode, checks, size, mnx, mxx, mny, mxy) ==
    FastFlushWindow(mode, checks, size, mnx, mxx, mny, mxy)
    \o BoundedDraw(checks, Dimensions(size)[1], <<mnx, mny>>,
                   <<DispMaxX(checks, size, mxx).val, DispMaxY(size, mxy)>>)

\* ResetReached with the reset as the first statement of the flush.
ResetAtStart(script, done) == TRUE

\* ResetReached with the reset after the data, on success only.
ResetOnSuccess(script, done) ==
    /\ done = Len(script)
    /\ done >= 2
    /\ script[1].c = "ColumnAddress"
    /\ script[2].c = "PageAddress"

\* Whether a flush got to the reset of the dirty region: the statements after
\* `set_draw_area(..)?` run once both window commands have been accepted.
ResetReached(script, done) ==
    /\ done >= 2
    /\ script[1].c = "ColumnAddress"
    /\ script[2].c = "PageAddress"

\* What flush and fast_flush do besides transmitting: the reset.
Flushed(script, done) ==
    /\ IF ResetReached(script, done)
       THEN /\ min_x' = 255 /\ max_x' = 0 /\ min_y' = 255 /\ max_y' = 0
            /\ tracked' = {} /\ cleared' = FALSE
       ELSE UNCHANGED <<min_x, max_x, min_y, max_y, tracked, cleared>>
    /\ touched' = {}
    /\ UNCHANGED <<display_size, display_rotation, addr_mode, buffer>>

flush ==
    LET script(b) == FlushScript(addr_mode, Checks(b), display_size)
    IN  Transmit(script, Call("flush", 0, 0, 0, "-", "-", "-"), Flushed)

fast_flush ==
    LET script(b) ==
            IF RegionEmpty(min_x, max_x, min_y, max_y)
            THEN FlushScript(addr_mode, Checks(b), display_size)
            ELSE FastFlushScript(addr_mode, Checks(b), display_size,
                                 min_x, max_x, min_y, max_y)
    IN  Transmit(script, Call("fast_flush", 0, 0, 0, "-", "-", "-"), Flushed)

\* ------------------------------------------------------------ construction

\* The controller after reset: Page addressing, the whole RAM as window. Its
\* RAM is not cleared by a reset: it starts empty or with a stray bit.
DevReset ==
    [mode |-> "Page", cs |-> 0, ce |-> 127, ps |-> 0, pe |-> 7, col |-> 0, page |-> 0,
     remap |-> 0, comdir |-> 0]

Init ==
    /\ build = "unknown"
    /\ display_size \in Sizes
    /\ display_rotation \in Rotations
    /\ addr_mode = "Page"
    /\ buffer = {}
    /\ min_x = 255 /\ max_x = 0 /\ min_y = 255 /\ max_y = 0
    /\ dev = DevReset
    /\ dev_mem \in {{}, {<<0, 0, 7>>}}
    /\ panicked = FALSE
    /\ last = Call("new", 0, 0, 0, "-", "-", "Ok")
    /\ sent = <<>>
    /\ rejected = <<>>
    /\ synced = (dev_mem = {})
    /\ touched = {} /\ tracked = {} /\ cleared = FALSE
    /\ nops = 0 /\ npix = 0 /\ nfail = 0

\* One more call, of which pix are set_pixel calls.
Count(limit, pix) ==
    /\ nops < limit /\ npix + pix <= MaxPixels
    /\ nops' = nops + 1 /\ npix' = npix + pix

\* GraphicsMode::init(): init_column_mode(), Horizontal addressing.
init == init_with_mode("Horizontal")

Next ==
    \/ Count(MaxOps, 1) /\ \E p \in Points, value \in {0, 1} : set_pixel(p[1], p[2], value)
    \/ Count(MaxOps, 0) /\ clear
    \/ Count(MaxOps, 0) /\ flush
    \/ Count(MaxOps, 0) /\ fast_flush
    \/ Count(MaxOps, 0) /\ \E mode \in AddrModes : init_with_mode(mode)
    \/ Count(MaxOps, 0) /\ \E mode \in AddrModes : change_mode(mode)
    \/ Count(MaxOps, 0) /\ \E rot \in Rotations : set_rotation(rot)

Spec == Init /\ [][Next]_vars

\* A client of GraphicsMode alone.
NextGraphics ==
    \/ Count(MaxGraphicsOps, 1)
        /\ \E p \in Points, value \in {0, 1} : set_pixel(p[1], p[2], value)
    \/ Count(MaxGraphicsOps, 0) /\ clear
    \/ Count(MaxGraphicsOps, 0) /\ flush
    \/ Count(MaxGraphicsOps, 0) /\ fast_flush
    \/ Count(MaxGraphicsOps, 0) /\ init

SpecGraphics == Init /\ [][NextGraphics]_vars

\* A client of the whole driver, on few inputs.
NextDriver ==
    \/ Count(MaxDriverOps, 1) /\ \E p \in FewPoints : set_pixel(p[1], p[2], 1)
    \/ Count(MaxDriverOps, 0) /\ clear
    \/ Count(MaxDriverOps, 0) /\ flush
    \/ Count(MaxDriverOps, 0) /\ fast_flush
    \/ Count(MaxDriverOps, 0) /\ \E mode \in AddrModes : init_with_mode(mode)
    \/ Count(MaxDriverOps, 0) /\ \E mode \in AddrModes : change_mode(mode)
    \/ Count(MaxDriverOps, 0) /\ \E rot \in Rotations : set_rotation(rot)
    \/ Count(MaxDriverOps, 0) /\ \E a \in DrawAreas : set_draw_area(a[1], a[2])
    \/ Count(MaxDriverOps, 0) /\ \E column \in Columns : set_column(column)
    \/ Count(MaxDriverOps, 0) /\ \E row \in Rows : set_row(row)
    \/ Count(MaxDriverOps, 0) /\ \E sl \in Slices : draw(sl[1], sl[2])
    \/ Count(MaxDriverOps, 0) /\ \E a \in BoundedDraws : bounded_draw(a[1], a[2], a[3])
    \/ Count(MaxDriverOps, 0) /\ \E on \in {0, 1} : display_on(on)
    \/ Count(MaxDriverOps, 0) /\ \E br \in Brightnesses : change_brightness(br)

SpecDriver == Init /\ [][NextDriver]_vars

\* A client of GraphicsMode over a channel that accepts every transmission.
NextFlush ==
    \/ Count(MaxFlushOps, 1) /\ \E p \in FewPoints : set_pixel(p[1], p[2], 1)
    \/ Count(MaxFlushOps, 0) /\ clear
    \/ Count(MaxFlushOps, 0) /\ flush /\ last'.res # "Err"
    \/ Count(MaxFlushOps, 0) /\ fast_flush /\ last'.res # "Err"
    \/ Count(MaxFlushOps, 0) /\ init /\ last'.res # "Err"

SpecFlush == Init /\ [][NextFlush]_vars

\* A client that turns the display and reads its properties.
NextRotation ==
    \/ Count(MaxRotationOps, 0) /\ \E rot \in Rotations : set_rotation(rot)
    \/ Count(MaxRotationOps, 0) /\ get_dimensions
    \/ Count(MaxRotationOps, 0) /\ get_rotation
    \/ Count(MaxRotationOps, 0) /\ init
    \/ Count(MaxRotationOps, 0) /\ clear

SpecRotation == Init /\ [][NextRotation]_vars

\* A client of the operations that transmit more than once, on a channel
\* that may reject a transmission.
NextAbort ==
    \/ Count(MaxAbortOps, 0) /\ init
    \/ Count(MaxAbortOps, 0) /\ \E rot \in {"Rotate0", "Rotate90"} : set_rotation(rot)
    \/ Count(MaxAbortOps, 0) /\ change_brightness(BrightnessDefault)
    \/ Count(MaxAbortOps, 0) /\ set_draw_area(<<8, 8>>, <<16, 16>>)
    \/ Count(MaxAbortOps, 0) /\ bounded_draw(128, <<0, 0>>, <<8, 15>>)
    \/ Count(MaxAbortOps, 0) /\ clear
    \/ Count(MaxAbortOps, 0) /\ flush
    \/ Count(MaxAbortOps, 0) /\ fast_flush

SpecAbort == Init /\ [][NextAbort]_vars

\* A client of GraphicsMode that draws two opposite corners.
NextCorners ==
    \/ Count(MaxCornerOps, 1) /\ \E p \in Corners : set_pixel(p[1], p[2], 1)
    \/ Count(MaxCornerOps, 0) /\ init
    \/ Count(MaxCornerOps, 0) /\ flush
    \/ Count(MaxCornerOps, 0) /\ fast_flush

SpecCorners == Init /\ [][NextCorners]_vars

\* A client that initialises the display, draws, turns and dims it, updates
\* it and changes the addressing mode.
NextSession ==
    \/ Count(MaxSessionOps, 0) /\ init
    \/ Count(MaxSessionOps, 0) /\ \E mode \in AddrModes : change_mode(mode)
    \/ Count(MaxSessionOps, 1) /\ \E p \in FewPoints : set_pixel(p[1], p[2], 1)
    \/ Count(MaxSessionOps, 0) /\ clear
    \/ Count(MaxSessionOps, 0) /\ \E rot \in {"Rotate0", "Rotate90"} : set_rotation(rot)
    \/ Count(MaxSessionOps, 0) /\ change_brightness(BrightnessDefault)
    \/ Count(MaxSessionOps, 0) /\ flush
    \/ Count(MaxSessionOps, 0) /\ fast_flush

SpecSession == Init /\ [][NextSession]_vars

\* A client of GraphicsMode that goes on drawing and updating after an update
\* has failed.
NextRetry ==
    \/ Count(MaxRetryOps, 1) /\ \E p \in TwoPoints : set_pixel(p[1], p[2], 1)
    \/ Count(MaxRetryOps, 0) /\ init
    \/ Count(MaxRetryOps, 0) /\ flush
    \/ Count(MaxRetryOps, 0) /\ fast_flush

SpecRetry == Init /\ [][NextRetry]_vars

\* ---------------------------------------------------------------- properties

\* The frame at the current rotation, and the byte and bit the documented
\* mapping gives a point of it.
RotatedWidth == GetDimensions(display_size, display_rotation)[1]
RotatedHeight == GetDimensions(display_size, display_rotation)[2]

InPanel(x, y) == x < RotatedWidth /\ y < RotatedHeight

MappedByte(x, y) ==
    IF display_rotation \in {"Rotate0", "Rotate180"}
    THEN (y \div 8) * Dimensions(display_size)[1] + x
    ELSE (x \div 8) * Dimensions(display_size)[1] + y

MappedBit(x, y) ==
    IF display_rotation \in {"Rotate0", "Rotate180"} THEN y % 8 ELSE x % 8

OutOfRange(x, y) ==
    ~InPanel(x, y) \/ MappedByte(x, y) >= ActiveLen(display_size)

IsFlush(op) == op \in {"flush", "fast_flush"}

Sentinel == min_x = 255 /\ max_x = 0 /\ min_y = 255 /\ max_y = 0

\* The smallest and the largest of a non-empty set of numbers.
Least(S) == CHOOSE m \in S : \A n \in S : m <= n
Greatest(S) == CHOOSE m \in S : \A n \in S : m >= n

\* C1: from a state in which the device memory equals the framebuffer, after
\* any set_pixel and clear calls, a fast_flush that meets no transport error
\* leaves the device memory equal to the framebuffer's active slice, at every
\* size and rotation.
C1_FastFlushEqualsFlush ==
    [][(synced /\ last'.op = "fast_flush" /\ last'.res = "Ok") => InSync']_vars

\* C2: set_pixel(x, y, v) with (x, y) outside the rotated dimensions, or
\* mapped to a byte outside the active slice, is a no-op: the framebuffer and
\* the four dirty-region bounds are unchanged.
C2_OutOfRangeIsNoOp ==
    [][(last'.op = "set_pixel" /\ OutOfRange(last'.x, last'.y))
        => UNCHANGED <<buffer, min_x, max_x, min_y, max_y>>]_vars

\* C3: for an in-range (x, y), set_pixel(x, y, non-zero) sets and
\* set_pixel(x, y, 0) clears exactly the bit of the mapping: bit y mod 8 of
\* byte (y/8)*width + x at 0/180 degrees, bit x mod 8 of byte (x/8)*width + y
\* at 90/270 degrees; the bit then reads as the value written.
C3_PixelMapping ==
    [][(last'.op = "set_pixel" /\ InPanel(last'.x, last'.y)) =>
        LET m == <<MappedByte(last'.x, last'.y), MappedBit(last'.x, last'.y)>>
        IN  /\ last'.res = "Ok"
            /\ buffer' = IF last'.v = 0 THEN buffer \ {m} ELSE buffer \cup {m}
            /\ (m \in buffer') = (last'.v # 0)]_vars

\* set_pixel(9, 100, non-zero) on a quarter-turned 128-column panel.
C3_Witness ==
    /\ last.op = "set_pixel" /\ last.x = 9 /\ last.y = 100 /\ last.v # 0
    /\ Quarter(display_rotation) /\ InPanel(9, 100)
    /\ <<228, 1>> \in buffer

\* C4: a set_pixel call changes at most one bit of the framebuffer; every
\* other bit of the addressed byte and every other byte keep their value, for
\* in-range and out-of-range coordinates alike.
C4_AtMostOneBit ==
    [][last'.op = "set_pixel" =>
        Cardinality((buffer' \ buffer) \cup (buffer \ buffer')) <= 1]_vars

\* A second bit written to a byte that already held one.
C4_Witness ==
    /\ last.op = "set_pixel" /\ last.res = "Ok"
    /\ \E p \in buffer, q \in buffer : p[1] = q[1] /\ p[2] # q[2]

\* C5: after clear() every byte of the framebuffer's active slice is zero,
\* whatever the buffer held, at every size and rotation.
C5_ClearZeroes ==
    last.op = "clear" => \A p \in buffer : p[1] >= ActiveLen(display_size)

\* clear() after two accepted set_pixel calls, on a quarter-turned panel.
C5_Witness ==
    /\ last.op = "clear" /\ Cardinality(tracked) = 2 /\ Quarter(display_rotation)

\* C6 as stated: the four dirty-region bounds are the same after clear() as
\* before it.
C6_ClearKeepsBounds ==
    [][last'.op = "clear" => UNCHANGED <<min_x, max_x, min_y, max_y>>]_vars

\* C6: clear() marks the whole frame dirty: after it min_x = 0, max_x = rotated
\* width - 1, min_y = 0, max_y = rotated height - 1.
C6_ClearMarksFrame ==
    last.op = "clear" =>
        /\ min_x = 0 /\ max_x = RotatedWidth - 1
        /\ min_y = 0 /\ max_y = RotatedHeight - 1

\* clear() on a quarter-turned 128-column panel.
C6_Witness ==
    /\ last.op = "clear" /\ Quarter(display_rotation)
    /\ max_x < 127 /\ max_y = 127

\* C7 as stated: the dirty region is empty at construction; after accepted
\* set_pixel calls since construction or the last flush its bounds are the
\* least and greatest touched x and y; between flushes min bounds never
\* increase and max bounds never decrease.
C7_DirtyRegionExact ==
    /\ (min_x > max_x /\ max_y < min_y)
    /\ [][/\ touched' # {} =>
                /\ min_x' = Least({p[1] : p \in touched'})
                /\ max_x' = Greatest({p[1] : p \in touched'})
                /\ min_y' = Least({p[2] : p \in touched'})
                /\ max_y' = Greatest({p[2] : p \in touched'})
          /\ ~IsFlush(last'.op) =>
                /\ min_x' <= min_x /\ max_x' >= max_x
                /\ min_y' <= min_y /\ max_y' >= max_y]_vars

\* C7: the dirty region is empty at construction; after accepted set_pixel
\* calls since construction or since the region was last reset by a flush,
\* with no clear() in between, its bounds are the least and greatest touched x
\* and y, each taken modulo 256; a set_pixel call never increases a min bound
\* nor decreases a max bound.
C7_DirtyRegionTracksPixels ==
    /\ (min_x > max_x /\ max_y < min_y)
    /\ [][/\ (tracked' # {} /\ ~cleared') =>
                /\ min_x' = Least({p[1] % 256 : p \in tracked'})
                /\ max_x' = Greatest({p[1] % 256 : p \in tracked'})
                /\ min_y' = Least({p[2] % 256 : p \in tracked'})
                /\ max_y' = Greatest({p[2] % 256 : p \in tracked'})
          /\ last'.op = "set_pixel" =>
                /\ min_x' <= min_x /\ max_x' >= max_x
                /\ min_y' <= min_y /\ max_y' >= max_y]_vars

\* Two accepted points, the second of which widened the region both ways.
C7_Witness ==
    /\ last.op = "set_pixel" /\ last.res = "Ok"
    /\ Cardinality(tracked) = 2 /\ ~cleared
    /\ min_x < max_x /\ min_y < max_y

\* C8 as stated: the dirty region is the empty sentinel after every flush or
\* fast_flush call, whether it returns success or an error.
C8_FlushAlwaysResets ==
    (IsFlush(last.op) /\ last.res \in {"Ok", "Err"}) => Sentinel

\* C8: flush and fast_flush reset the dirty region once both draw-window
\* commands have been accepted, before any data is sent: it is the empty
\* sentinel after a call that returns success or fails while sending data,
\* and unchanged after a call that fails at a draw-window command.
C8_FlushResetsAfterWindow ==
    [][(IsFlush(last'.op) /\ last'.res \in {"Ok", "Err"}) =>
        IF Len(sent') >= 2
        THEN Sentinel'
        ELSE UNCHANGED <<min_x, max_x, min_y, max_y>>]_vars

\* A flush rejected at a draw-window command, the region still dirty.
C8_Witness ==
    /\ IsFlush(last.op) /\ last.res = "Err" /\ Len(sent) < 2
    /\ min_x <= max_x /\ min_y <= max_y

\* C9: in every reachable state the locally stored addressing mode equals
\* the mode of the last AddressMode command the channel accepted (Page if
\* none was).
C9_ModeConsistent == addr_mode = dev.mode

\* C10: change_mode(new_mode) is legal from every addressing mode; it sends
\* the AddressMode command and sets the local mode to new_mode only if the
\* send succeeds; if the send fails it returns the error and the local mode
\* is unchanged.
C10_ChangeMode ==
    [][last'.op = "change_mode" =>
        \/ /\ last'.res = "Ok"
           /\ sent' = <<Cmd("AddressMode", ModeCode(last'.mode), 0)>>
           /\ addr_mode' = last'.mode
        \/ /\ last'.res = "Err"
           /\ sent' = <<>>
           /\ addr_mode' = addr_mode]_vars

\* change_mode rejected by the channel, called in a mode other than Page.
C10_Witness ==
    /\ last.op = "change_mode" /\ last.res = "Err"
    /\ addr_mode \in {"Horizontal", "Vertical"} /\ addr_mode # last.mode

\* C11: the local addressing mode is Page at construction and is changed
\* only by change_mode and by initialisation with a mode: set_rotation,
\* set_draw_area, set_column, set_row, draw, bounded_draw, flush, fast_flush,
\* set_pixel, clear, display_on and change_brightness leave it unchanged.
C11_ModeChangedOnlyExplicitly ==
    /\ addr_mode = "Page"
    /\ [][last'.op \notin {"change_mode", "init_with_mode"}
            => addr_mode' = addr_mode]_vars

\* set_draw_area accepted in Vertical mode, the mode still Vertical.
C11_Witness ==
    /\ last.op = "set_draw_area" /\ last.res = "Ok" /\ Len(sent) = 2
    /\ addr_mode = "Vertical"

\* C12: a position command issued in an incompatible addressing mode,
\* set_draw_area in Page mode, set_column or set_row in Horizontal or Vertical
\* mode, returns the error InvalidMode and transmits nothing; it never panics.
C12_InvalidModeIsAnError ==
    (\/ last.op = "set_draw_area" /\ addr_mode = "Page"
     \/ last.op \in {"set_column", "set_row"} /\ addr_mode \in {"Horizontal", "Vertical"})
    => (last.res = "InvalidMode" /\ sent = <<>> /\ ~panicked)

\* Whether the window [start, end) has a column outside [0, width) or a page
\* outside [0, height / 8), or is empty.
WindowOutOfGeometry(start, end) ==
    \/ end[1] = 0 \/ end[2] = 0
    \/ start[1] >= end[1] \/ start[2] >= end[2]
    \/ end[1] > Dimensions(display_size)[1]
    \/ end[2] > Dimensions(display_size)[2]

\* Whether a transmitted window command addresses only columns below the
\* width and pages below height / 8, first to last.
InGeometry(t) ==
    /\ t.c = "ColumnAddress" => (t.a <= t.b /\ t.b < Dimensions(display_size)[1])
    /\ t.c = "PageAddress" => (t.a <= t.b /\ t.b < Dimensions(display_size)[2] \div 8)

\* C13: set_draw_area(start, end) in Horizontal or Vertical mode fails with
\* OutOfRange and sends nothing when the window has a column outside
\* [0, width) or a page outside [0, height / 8), an empty window included; no
\* window command with out-of-geometry bounds reaches the channel.
C13_WindowOutOfRangeIsAnError ==
    (last.op = "set_draw_area" /\ addr_mode \in {"Horizontal", "Vertical"}) =>
        /\ WindowOutOfGeometry(last.x, last.y)
            => (last.res = "OutOfRange" /\ sent = <<>>)
        /\ \A i \in 1..Len(sent) : InGeometry(sent[i])

\* The configuration commands of the initialisation sequence.
ConfigCommands ==
    {"DisplayClockDiv", "Multiplex", "DisplayOffset", "StartLine", "ChargePump",
     "AddressMode", "SegmentRemap", "ReverseComDir", "ComPinConfig",
     "PreChargePeriod", "Contrast", "VcomhDeselect", "AllOn", "Invert",
     "EnableScroll"}

\* C14: in the initialisation sequence DisplayOn(false) is the first command
\* sent and DisplayOn(true) the last; every configuration command is sent
\* strictly between them, and DisplayOn(true) is sent only if all of them
\* were accepted.
C14_InitOffFirstOnLast ==
    last.op = "init_with_mode" =>
        /\ Len(sent) >= 1 => sent[1] = Cmd("DisplayOn", 0, 0)
        /\ \A i \in 2..Len(sent) : sent[i] # Cmd("DisplayOn", 0, 0)
        /\ \A i \in 1..Len(sent) :
            sent[i] = Cmd("DisplayOn", 1, 0) =>
                /\ i = Len(sent) /\ last.res = "Ok"
                /\ {sent[j].c : j \in 2..(i - 1)} = ConfigCommands
        /\ \A i \in 1..Len(sent) :
            sent[i].c \in ConfigCommands => (1 < i /\ sent[i].c # "DisplayOn")
        /\ last.res = "Ok" => sent[Len(sent)] = Cmd("DisplayOn", 1, 0)

\* An initialisation accepted in full.
C14_Witness ==
    /\ last.op = "init_with_mode" /\ last.res = "Ok" /\ Len(sent) = 17

\* The flags of SegmentRemap and ReverseComDir for each rotation.
RotationFlags(rot) ==
    CASE rot = "Rotate0" -> <<1, 1>>
      [] rot = "Rotate90" -> <<0, 1>>
      [] rot = "Rotate180" -> <<0, 0>>
      [] rot = "Rotate270" -> <<1, 0>>

\* C15: set_rotation(r) sends exactly two commands, SegmentRemap then
\* ReverseComDir, with the flags (1,1) at 0 degrees, (0,1) at 90, (0,0) at 180
\* and (1,0) at 270; the four rotations give four distinct flag pairs.
C15_RotationCommands ==
    /\ Cardinality({RotationCommands(r) : r \in Rotations}) = 4
    /\ last.op = "set_rotation" =>
        LET full == <<Cmd("SegmentRemap", RotationFlags(last.rot)[1], 0),
                      Cmd("ReverseComDir", RotationFlags(last.rot)[2], 0)>>
        IN  /\ last.res \in {"Ok", "Err"}
            /\ last.res = "Ok" => sent = full
            /\ last.res = "Err" => sent \in {<<>>, SubSeq(full, 1, 1)}

\* set_rotation(Rotate270) accepted.
C15_Witness ==
    /\ last.op = "set_rotation" /\ last.rot = "Rotate270" /\ last.res = "Ok"
    /\ Len(sent) = 2

\* C16: change_brightness with a precharge outside 1..15 is rejected before
\* anything is transmitted (0 and 16 rejected, 1 and 15 accepted); with a
\* precharge inside the range it sends exactly two commands, the precharge
\* period, then the contrast.
C16_BrightnessChecked ==
    last.op = "change_brightness" =>
        IF last.x \in 1..15
        THEN /\ last.res \in {"Ok", "Err"}
             /\ last.res = "Ok" =>
                    sent = <<Cmd("PreChargePeriod", 1, last.x),
                             Cmd("Contrast", last.y, 0)>>
        ELSE last.res # "Ok" /\ sent = <<>>

\* The transmissions of a full update of a display size: the window of all its
\* columns and pages, then its slice of the framebuffer from byte 0.
FullUpdate(size) ==
    CASE size = "Display128x64" ->
            <<Cmd("ColumnAddress", 0, 127), Cmd("PageAddress", 0, 7), Cmd("Data", 0, 1024)>>
      [] size = "Display128x32" ->
            <<Cmd("ColumnAddress", 0, 127), Cmd("PageAddress", 0, 3), Cmd("Data", 0, 512)>>
      [] size = "Display96x16" ->
            <<Cmd("ColumnAddress", 0, 95), Cmd("PageAddress", 0, 1), Cmd("Data", 0, 192)>>

\* C17: flush in Horizontal or Vertical mode programs the draw window to the
\* whole geometry, columns [0, width) and rows [0, height), then transmits
\* exactly the first width * height / 8 bytes of the framebuffer (1024, 512,
\* 192), at every display size; a call the channel fails stops inside that
\* sequence.
C17_FlushIsFullUpdate ==
    (last.op = "flush" /\ addr_mode \in {"Horizontal", "Vertical"}) =>
        /\ last.res \in {"Ok", "Err"}
        /\ Len(sent) <= 3
        /\ sent = SubSeq(FullUpdate(display_size), 1, Len(sent))
        /\ last.res = "Ok" => Len(sent) = 3
        /\ last.res = "Err" => Len(sent) < 3

C17_Witness ==
    /\ last.op = "flush" /\ last.res = "Ok"
    /\ addr_mode = "Vertical" /\ display_size = "Display96x16"
    /\ Len(sent) = 3

\* C18: with an empty dirty region (max_x < min_x or max_y < min_y) fast_flush
\* performs exactly the transmissions of flush, the full window followed by
\* the whole active slice, and panics in Page mode as flush does.
C18_EmptyRegionIsFlush ==
    [][(last'.op = "fast_flush" /\ (max_x < min_x \/ max_y < min_y)) =>
            IF addr_mode = "Page"
            THEN last'.res = "Panic" /\ sent' = <<>>
            ELSE /\ last'.res \in {"Ok", "Err"}
                 /\ Len(sent') <= 3
                 /\ sent' = SubSeq(FullUpdate(display_size), 1, Len(sent'))
                 /\ (last'.res = "Ok") = (Len(sent') = 3)]_vars

\* Only the early return sends the slice of a 128-column display as one
\* transmission.
C18_Witness ==
    /\ last.op = "fast_flush" /\ last.res = "Ok"
    /\ display_size = "Display128x64"
    /\ sent = FullUpdate("Display128x64")

\* The data transmissions among a call's transmissions, and the page each
\* one starts in.
Bands(s) == {i \in 1..Len(s) : s[i].c = "Data"}
BandPage(t) == t.a \div Dimensions(display_size)[1]

\* The page of the panel a point is shown in.
PointPage(p) == MappedByte(p[1], p[2]) \div Dimensions(display_size)[1]

C20_FastFlushClamped ==
    (last.op = "fast_flush" /\ addr_mode # "Page") =>
        /\ last.res # "Panic"
        /\ \A i \in 1..Len(sent) : InGeometry(sent[i])
        /\ \A i \in Bands(sent) : sent[i].a + sent[i].b <= ActiveLen(display_size)

\* C21: flush and fast_flush called while the addressing mode is Page fail at
\* the draw-window step with the error InvalidMode: nothing is transmitted,
\* the addressing mode stays Page, and the call returns instead of panicking.
C21_FlushInPageModeIsAnError ==
    [][(IsFlush(last'.op) /\ addr_mode = "Page") =>
            /\ last'.res = "InvalidMode"
            /\ sent' = <<>>
            /\ addr_mode' = "Page"
            /\ ~panicked']_vars

\* The dimensions of a panel turned by a rotation.
Turned(size, rot) ==
    CASE size = "Display128x64" /\ rot \in {"Rotate0", "Rotate180"} -> <<128, 64>>
      [] size = "Display128x64" /\ rot \in {"Rotate90", "Rotate270"} -> <<64, 128>>
      [] size = "Display128x32" /\ rot \in {"Rotate0", "Rotate180"} -> <<128, 32>>
      [] size = "Display128x32" /\ rot \in {"Rotate90", "Rotate270"} -> <<32, 128>>
      [] size = "Display96x16" /\ rot \in {"Rotate0", "Rotate180"} -> <<96, 16>>
      [] size = "Display96x16" /\ rot \in {"Rotate90", "Rotate270"} -> <<16, 96>>

\* C22: the reported dimensions reflect the current rotation, (width, height)
\* at 0 and 180 degrees and (height, width) at 90 and 270 degrees, and the
\* reported rotation is the one given at construction or by the last
\* set_rotation: only set_rotation changes it, to its argument.
C22_DimensionsFollowRotation ==
    [][/\ last'.op = "get_dimensions" =>
            <<last'.x, last'.y>> = Turned(display_size, display_rotation)
       /\ last'.op = "get_rotation" => last'.rot = display_rotation
       /\ display_rotation' =
            IF last'.op = "set_rotation" THEN last'.rot ELSE display_rotation]_vars

C22_Witness ==
    /\ last.op = "get_dimensions" /\ last.x = 64 /\ last.y = 128
    /\ display_size = "Display128x64" /\ display_rotation = "Rotate270"
    /\ nops = 2

\* The operations that transmit more than once.
MultiStep ==
    {"init_with_mode", "set_rotation", "change_brightness", "set_draw_area",
     "flush", "fast_flush", "bounded_draw"}

\* The transmissions a call makes in a build when the channel accepts them
\* all.
CallScript(call, b) ==
    CASE call.op = "init_with_mode" ->
            InitCommands(display_size, display_rotation, Checks(b), call.mode)
      [] call.op = "set_rotation" -> RotationCommands(call.rot)
      [] call.op = "change_brightness" ->
            BrightnessCommands(Checks(b), [precharge |-> call.x, contrast |-> call.y])
      [] call.op = "set_draw_area" -> SetDrawArea(addr_mode, Checks(b), call.x, call.y)
      [] call.op = "bounded_draw" -> BoundedDraw(Checks(b), call.v, call.x, call.y)
      [] call.op = "flush" -> FlushScript(addr_mode, Checks(b), display_size)
      [] call.op = "fast_flush" ->
            IF max_x < min_x \/ max_y < min_y
            THEN FlushScript(addr_mode, Checks(b), display_size)
            ELSE FastFlushScript(addr_mode, Checks(b), display_size,
                                 min_x, max_x, min_y, max_y)

\* C23: in every sequence of transmissions (initialisation, set_rotation,
\* change_brightness, set_draw_area, flush, fast_flush / bounded_draw) the
\* first transport failure aborts the sequence: what was accepted before it
\* and the rejected transmission are the beginning of the sequence, nothing
\* after it reaches the device, nothing is sent again, and the call returns
\* the error (and returns an error only for a rejected transmission).
C23_FailureAborts ==
    [][last'.op \in MultiStep =>
        /\ (last'.res = "Err") = (rejected' # <<>>)
        /\ last'.res = "Err" =>
            /\ \E b \in Builds :
                /\ Len(sent') + 1 <= Len(CallScript(last', b))
                /\ sent' \o rejected' = SubSeq(CallScript(last', b), 1, Len(sent') + 1)
            /\ dev' = DevRun(dev, dev_mem, buffer, sent').d
            /\ dev_mem' = DevRun(dev, dev_mem, buffer, sent').mem]_vars

C23_Witness ==
    /\ last.op = "fast_flush" /\ last.res = "Err"
    /\ Len(sent) >= 3
    /\ rejected = <<Cmd("Data", 128, 128)>>

\* The precondition of the scenario: a 128x64 panel at rotation 0 in
\* Horizontal mode on which (0, 0) and (127, 63) were set since the dirty
\* region was empty.
TwoCorners ==
    /\ display_size = "Display128x64" /\ display_rotation = "Rotate0"
    /\ addr_mode = "Horizontal"
    /\ tracked = {<<0, 0>>, <<127, 63>>} /\ ~cleared

WholeFrame ==
    /\ min_x = 0 /\ max_x = RotatedWidth - 1
    /\ min_y = 0 /\ max_y = RotatedHeight - 1

\* C25: when the dirty region covers the whole frame, as after clear(),
\* fast_flush calls flush: it makes the transmissions of flush, one
\* full-geometry window and one transmission of the whole active slice,
\* rather than one transmission per page band.
C25_WholeFrameIsFlush ==
    [][(/\ WholeFrame
        /\ addr_mode = "Horizontal"
        /\ last'.op = "fast_flush" /\ last'.res = "Ok") =>
            sent' = FullUpdate(display_size)]_vars

\* C26: at rotation 0 or 180, from a device memory equal to the framebuffer,
\* set_pixel calls with coordinates inside the panel followed by a fast_flush
\* without error leave the device memory equal to the framebuffer's active
\* slice: every byte changed since the last flush is in a transmitted band.
C26_FastFlushInPanel ==
    [][(/\ synced /\ ~cleared
        /\ display_rotation \in {"Rotate0", "Rotate180"}
        /\ \A p \in touched \cup tracked : InPanel(p[1], p[2])
        /\ last'.op = "fast_flush" /\ last'.res = "Ok") => InSync']_vars

C26_Witness ==
    /\ last.op = "fast_flush" /\ last.res = "Ok"
    /\ display_rotation = "Rotate180"
    /\ sent[1] = Cmd("ColumnAddress", 0, 9) /\ sent[2] = Cmd("PageAddress", 0, 1)
    /\ Cardinality(Bands(sent)) = 2
    /\ Cardinality(dev_mem) = 2 /\ InSync

\* C27: in a fast_flush with a non-empty dirty region the two window commands
\* are sent before any data; then one data transmission is made per page of
\* the programmed window, in increasing page order, and the band of page p
\* carries exactly the bytes [p * width + col_start, p * width + col_end) of
\* the framebuffer, [col_start, col_end) being the window's columns.
C27_WindowThenBands ==
    [][(/\ last'.op = "fast_flush" /\ last'.res = "Ok"
        /\ addr_mode = "Horizontal"
        /\ ~(max_x < min_x \/ max_y < min_y)) =>
            /\ Len(sent') >= 3
            /\ sent'[1].c = "ColumnAddress" /\ sent'[2].c = "PageAddress"
            /\ LET width == Dimensions(display_size)[1]
                   col_start == sent'[1].a
                   col_end == sent'[1].b + 1
                   first == sent'[2].a
                   final == sent'[2].b
               IN  /\ Len(sent') - 2 = final - first + 1
                   /\ \A i \in 3..Len(sent') :
                        sent'[i] = Cmd("Data", (first + i - 3) * width + col_start,
                                       col_end - col_start)]_vars

\* C28: a successful set_draw_area(start, end) in Horizontal or Vertical mode
\* sends exactly two commands, ColumnAddress(start.0, end.0 - 1), then
\* PageAddress(page of start.1, page of end.1 - 1): the window is the
\* half-open range [start, end), the subtractions being those of u8. If the
\* column command fails the page command is not sent.
C28_DrawAreaCommands ==
    (last.op = "set_draw_area" /\ addr_mode \in {"Horizontal", "Vertical"}) =>
        LET start == last.x
            end == last.y
            column == Cmd("ColumnAddress", start[1], (end[1] - 1) % 256)
            page == Cmd("PageAddress", start[2] \div 8, ((end[2] - 1) % 256) \div 8)
        IN  /\ last.res = "Ok" => sent = <<column, page>>
            /\ last.res = "Err" =>
                \/ sent = <<>> /\ rejected = <<column>>
                \/ sent = <<column>> /\ rejected = <<page>>

C28_Witness ==
    /\ last.op = "set_draw_area" /\ last.res = "Ok"
    /\ last.x = <<8, 8>> /\ last.y = <<16, 16>>
    /\ sent = <<Cmd("ColumnAddress", 8, 15), Cmd("PageAddress", 1, 1)>>

\* C29: set_pixel never panics and never writes outside the 1024-byte
\* framebuffer, for every (x, y) of the u32 range, every display size and
\* every rotation.
C29_SetPixelIsSafe ==
    /\ last.op = "set_pixel" => (last.res # "Panic" /\ ~panicked)
    /\ \A p \in buffer : p[1] < BufferLen

\* A call that asks for Page addressing.
AsksForPage(call) ==
    call.op \in {"change_mode", "init_with_mode"} /\ call.mode = "Page"

\* C30: after GraphicsMode::init() returns success the local addressing mode
\* is Horizontal; it stays Horizontal or Vertical until Page addressing is
\* asked for; hence a flush or fast_flush issued after a successful init,
\* with only drawing, clear, rotation and brightness calls in between, is
\* never stopped by the addressing mode check of set_draw_area.
C30_InitEnablesFlush ==
    [][/\ (last'.op = "init_with_mode" /\ last'.mode = "Horizontal"
                /\ last'.res = "Ok") => addr_mode' = "Horizontal"
       /\ (addr_mode # "Page" /\ ~AsksForPage(last')) => addr_mode' # "Page"
       /\ (addr_mode # "Page" /\ IsFlush(last'.op)) =>
            /\ last'.res # "InvalidMode"
            /\ last'.res = "Panic" => sent' # <<>>]_vars

\* init(), clear(), fast_flush(): the eight bands of the cleared frame.
C30_Witness ==
    /\ last.op = "fast_flush" /\ last.res = "Ok"
    /\ addr_mode = "Horizontal"
    /\ nops = 3 /\ Len(sent) = 10

\* The rotation flags the controller holds.
DevFlags(d) == <<d.remap, d.comdir>>

\* C31: set_rotation stores the new rotation before it transmits the two
\* rotation commands: when the SegmentRemap or the ReverseComDir transmission
\* fails, the stored rotation and the reported dimensions are already those
\* of the requested rotation, while the controller holds the flags it had
\* (SegmentRemap rejected) or only the new SegmentRemap flag (ReverseComDir
\* rejected).
C31_RotationStoredFirst ==
    [][last'.op = "set_rotation" =>
        /\ display_rotation' = last'.rot
        /\ GetDimensions(display_size', display_rotation')
                = Turned(display_size, last'.rot)
        /\ last'.res = "Err" =>
            \/ /\ rejected'[1].c = "SegmentRemap"
               /\ DevFlags(dev') = DevFlags(dev)
            \/ /\ rejected'[1].c = "ReverseComDir"
               /\ DevFlags(dev') = <<RotationFlags(last'.rot)[1], dev.comdir>>]_vars

\* A failed set_rotation(Rotate90) after which the local rotation is not the
\* one the controller's flags stand for.
C31_Witness ==
    /\ last.op = "set_rotation" /\ last.res = "Err"
    /\ display_rotation = "Rotate90"
    /\ DevFlags(dev) = RotationFlags("Rotate0")

\* The transmissions of a fast_flush whose dirty region is the single point p.
OnePointUpdate(p) ==
    LET page == p[2] \div 8
    IN  <<Cmd("ColumnAddress", p[1], p[1]),
          Cmd("PageAddress", page, page),
          Cmd("Data", page * Dimensions(display_size)[1] + p[1], 1)>>

\* C32: flush and fast_flush reset the dirty region after the draw-window
\* commands were accepted and before the data is sent: a call that fails at a
\* draw-window command leaves the region unchanged, a call that fails at a
\* data transmission leaves it empty; so a set_pixel after such a failure
\* followed by fast_flush transmits the band of the new pixel only, not the
\* pixels whose transmission failed.
C32_ResetBeforeData ==
    [][/\ (IsFlush(last'.op) /\ last'.res = "Err") =>
            IF rejected'[1].c \in {"ColumnAddress", "PageAddress"}
            THEN UNCHANGED <<min_x, max_x, min_y, max_y>>
            ELSE /\ rejected'[1].c = "Data"
                 /\ min_x' = 255 /\ max_x' = 0 /\ min_y' = 255 /\ max_y' = 0
       /\ \A p \in TwoPoints :
            (/\ tracked = {p} /\ ~cleared
             /\ display_rotation \in {"Rotate0", "Rotate180"}
             /\ last'.op = "fast_flush" /\ last'.res = "Ok") =>
                sent' = OnePointUpdate(p)]_vars

\* After a fast_flush that failed at its data, set_pixel(9, 9, 1) and a
\* successful fast_flush: the device holds the new pixel only, the
\* framebuffer both.
C32_Witness ==
    /\ last.op = "fast_flush" /\ last.res = "Ok" /\ nfail = 1
    /\ display_size = "Display128x64" /\ display_rotation = "Rotate0"
    /\ sent = <<Cmd("ColumnAddress", 9, 9), Cmd("PageAddress", 1, 1), Cmd("Data", 137, 1)>>
    /\ buffer = {<<0, 1>>, <<137, 1>>}
    /\ dev_mem = {<<1, 9, 1>>}

\* C33: for every dirty region reachable through set_pixel and clear, at any
\* size and rotation, the 8-bit arithmetic of fast_flush, set_draw_area and
\* bounded_draw does not wrap: max_x + 1 <= 255, end.0 - 1 >= 0,
\* end.1 - 1 >= 0 and lower_right.1 - upper_left.1 >= 0, where end and
\* lower_right are the corner (disp_max_x, disp_max_y) fast_flush computes and
\* upper_left is (min_x, min_y).
C33_NoWrap ==
    [][(/\ last'.op = "fast_flush"
        /\ addr_mode = "Horizontal"
        /\ ~(max_x < min_x \/ max_y < min_y)) =>
            LET disp_max_x == DispMaxX(FALSE, display_size, max_x).val
                disp_max_y == DispMaxY(display_size, max_y)
            IN  /\ max_x + 1 <= 255
                /\ disp_max_x - 1 >= 0
                /\ disp_max_y - 1 >= 0
                /\ disp_max_y - min_y >= 0]_vars

====
